---- MODULE Spec2Model ----
(***************************************************************************)
(* GIP (GitHub Issues to PDF): the pagination-aware fetch pipeline and the *)
(* concurrency-bounded render pipeline of class GIP.                       *)
(*                                                                         *)
(* Node.js runs every callback to completion, so one action is one         *)
(* callback of the event loop together with everything it calls            *)
(* synchronously: a page response handler pushes the items and either      *)
(* issues the next request or runs the whole chain callback -> filter ->   *)
(* queueForRender -> (empty queue) completion -> eachSeries -> next        *)
(* repository's first request.                                             *)
(*                                                                         *)
(* The GitHub endpoints and the PDF renderer are the environment: a page   *)
(* response (its length, whether its link header carries rel="next") and   *)
(* the outcome of a render are chosen when the response arrives.           *)
(***************************************************************************)
EXTENDS Integers, Sequences, FiniteSets, TLC

\* ------------------------------------------------------------------ bounds
\* Repositories of an account / of the user-supplied list.
MaxRepos == 2
\* Pages of one listing of the paginated source.
MaxPages == 2
\* Items on one page of a listing.
MaxPageLen == 1
\* Items on the one page of the source of the render-queue specification.
MaxQueueIssues == 16
MaxFilterLen == 2

\* --------------------------------------------------------- program values
\* async.mapLimit(issues, 15, ...).
RenderLimit == 15

Years == {2020, 2021, 2022}
AccountTypes == {"organization", "user"}
RepoModes == {"one", "multiple", "all"}
AccountName == "acct"
Positions == 1..MaxRepos

\* null / undefined of a timestamp or a list.
Null == <<>>

\* ------------------------------------------------------- the issue source
\* The test double of the issue endpoint: issue number n of every
\* repository has these timestamps <<year, month, day>>.
CreatedAt(n) == <<CASE n % 3 = 1 -> 2020 [] n % 3 = 2 -> 2021 [] OTHER -> 2022, 3, 4>>

ClosedAt(n) ==
    IF n % 2 = 1 THEN Null
    ELSE IF (n \div 2) % 2 = 1 THEN <<CreatedAt(n)[1], 12, 1>>
    ELSE <<2022, 12, 1>>

\* res.data of an issue page: n items following the `before` already served.
IssuePage(before, n) ==
    [j \in 1..n |-> [number |-> before + j,
                     created_at |-> CreatedAt(before + j),
                     closed_at |-> ClosedAt(before + j)]]

\* res.data of a repository page.
RepoPage(before, n) == [j \in 1..n |-> [name |-> before + j]]

\* ------------------------------------------------------------------ state
VARIABLES
    cnf,              \* GHConf: the configuration object threaded through the run
    source,           \* the paginated source: [maxPages, maxLen]
    flow,             \* the orchestrator processUserRequest started ("none" before)
    gitHub,           \* GIP.#_gitHub is set
    pathOutput,       \* the account's output directory exists
    requests,         \* list-page requests in flight
    reqLog,           \* page numbers requested by the current walk
    served,           \* pages the current walk has received
    collectedRepos,   \* accumulator of the repository walk
    collectedIssues,  \* accumulator of the current issue walk
    lastWalk,         \* the walk whose completion callback ran last
    series,           \* async.eachSeries: [coll, pos, done]
    queue,            \* the last queueForRender call and its mapLimit state
    running,          \* generatePDF operations in flight, per repository position
    renderStarted,    \* issues generatePDF was called with by the current queue
    pendingThrow,     \* `throw err` of the queue callback waits in setImmediate
    aborted,          \* the process died of the uncaught exception
    failed,           \* the walk whose page request was rejected, or Null
    notices,          \* notices written to stdout, counted per kind
    filterCall,       \* a call of filterByYear on its own: arguments and result, or Null
    pathCall          \* calls of makePdfFilePath on their own: issues, paths, directories, or Null

vars == <<cnf, source, flow, gitHub, pathOutput, requests, reqLog, served,
          collectedRepos, collectedIssues, lastWalk, series, queue, running,
          renderStarted, pendingThrow, aborted, failed, notices, filterCall,
          pathCall>>

\* The values a synchronous call chain has given to the walk's variables.
Ctx == [cnf |-> cnf, reqs |-> requests, acc |-> collectedIssues,
        log |-> reqLog, srv |-> served]

SetWalk(c) ==
    /\ cnf' = c.cnf
    /\ requests' = c.reqs
    /\ collectedIssues' = c.acc
    /\ reqLog' = c.log
    /\ served' = c.srv

HasYear(config) == "issueYear" \in DOMAIN config.yearOfIssue

\* ----------------------------------------------------------- filterByYear
\* issue.created.match(rgx.issueYear): the array of matches of /^(\d{4})/gm,
\* one match, the four digits of the year.
MatchIssueYear(ts) == <<ts[1]>>

\* array === string: operands of different types are never strictly equal.
StrictEqualsArrayString(arr, str) == FALSE

\* array <= string, array >= string: the array is converted to the string of
\* its one element and two strings of four digits compare as their numbers.
ArrayLeqString(arr, str) == arr[1] <= str

\* A faulty variant of ArrayGeqString: the comparison is strict.
ArrayGtString(arr, str) == arr[1] > str

ArrayGeqString(arr, str) == arr[1] >= str

KeepByYear(issue, year) ==
    LET createdOnOrBeforeDate == StrictEqualsArrayString(MatchIssueYear(issue.created), year)
        notClosedOrClosedAfterDate ==
            /\ ArrayLeqString(MatchIssueYear(issue.created), year)
            /\ \/ issue.closed = Null
               \/ ArrayGeqString(MatchIssueYear(issue.closed), year)
    IN  createdOnOrBeforeDate \/ notClosedOrClosedAfterDate

\* A faulty variant of FilterByYear: a kept issue is put in front of the
\* accumulator.
RECURSIVE FilterByYearUnshift(_, _, _)
FilterByYearUnshift(issues, year, datedIssues) ==
    IF issues = <<>> THEN datedIssues
    ELSE LET issue == Head(issues) IN
         FilterByYearUnshift(Tail(issues), year,
             IF KeepByYear(issue, year)
             THEN <<[closed |-> issue.closed, created |-> issue.created,
                     num |-> issue.num, owner |-> issue.owner, repo |-> issue.repo]>>
                  \o datedIssues
             ELSE datedIssues)

RECURSIVE FilterByYear(_, _, _)
FilterByYear(issues, year, datedIssues) ==
    IF issues = <<>> THEN datedIssues
    ELSE LET issue == Head(issues) IN
         FilterByYear(Tail(issues), year,
             IF KeepByYear(issue, year)
             THEN Append(datedIssues,
                      [closed |-> issue.closed, created |-> issue.created,
                       num |-> issue.num, owner |-> issue.owner, repo |-> issue.repo])
             ELSE datedIssues)

\* Array.isArray(value), for a value [isArray |-> TRUE, items |-> <<...>>] or
\* [isArray |-> FALSE] (undefined, null, a string, a number, an object).
ArrayIsArray(value) == value.isArray

\* A faulty variant of FilterByYearCall: the loop runs without the
\* Array.isArray guard and `for ... of` throws on a value that is not iterable.
FilterByYearCallUnguarded(value, year, datedIssues) ==
    IF ArrayIsArray(value)
    THEN [threw |-> FALSE, value |-> FilterByYear(value.items, year, datedIssues)]
    ELSE [threw |-> TRUE, value |-> <<>>]

\* One call of filterByYear, from its guard to its return.
FilterByYearCall(value, year, datedIssues) ==
    IF ArrayIsArray(value)
    THEN [threw |-> FALSE, value |-> FilterByYear(value.items, year, datedIssues)]
    ELSE [threw |-> FALSE, value |-> datedIssues]

\* --------------------------------------------------------- makePdfFilePath
\* conf.dirOutput
DirOutput == "./data/output"

\* GIP.#_pathOutput as makeMainOutputDirIfNeeded sets it: dirOutput/accountName.
PathOutput(config) == <<DirOutput, config.accountInfo.accountName>>

\* makeIssueOutputDirIfNeeded: the directory of the issue's repository.
IssueOutputDir(config, issue) == Append(PathOutput(config), issue.repo)

\* conf.rgx.fileDate.exec(issue.created)[0]: the YYYY-MM-DD at the head of
\* the timestamp <<year, month, day, time of day>>.
FileDateExec(ts) == SubSeq(ts, 1, 3)

\* String(num): the decimal digits of a number.
RECURSIVE NumToString(_)
NumToString(num) == IF num < 10 THEN <<num>> ELSE Append(NumToString(num \div 10), num % 10)

\* A faulty variant of PadStart: the string is cut to its last targetLength
\* characters.
PadStartCut(str, targetLength, pad) ==
    LET padded == [i \in 1..targetLength |-> pad] \o str
    IN  SubSeq(padded, Len(padded) - targetLength + 1, Len(padded))

\* str.padStart(targetLength, pad) for a pad of one character.
PadStart(str, targetLength, pad) ==
    IF Len(str) >= targetLength THEN str
    ELSE [i \in 1..(targetLength - Len(str)) |-> pad] \o str

\* The path `${pathDir}/${issueDate}.#${issueId}.pdf`.
MakePdfFilePath(config, issue) ==
    [dir |-> IssueOutputDir(config, issue),
     date |-> FileDateExec(issue.created),
     id |-> PadStart(NumToString(issue.num), 4, 0),
     ext |-> "pdf"]

\* ------------------------------------------------------------ fetchIssues
\* The per-item projection of fetchIssues.
ProjectIssues(data, config, repo) ==
    [j \in 1..Len(data) |-> [closed |-> data[j].closed_at,
                             created |-> data[j].created_at,
                             num |-> data[j].number,
                             owner |-> config.accountInfo.accountName,
                             repo |-> repo]]

ProjectRepos(data, config) ==
    [j \in 1..Len(data) |-> [name |-> data[j].name,
                             owner |-> config.accountInfo.accountName]]

IssueRequest(config, repo, pos) ==
    [kind |-> "issues", owner |-> config.accountInfo.accountName,
     page |-> config.page, repo |-> repo, pos |-> pos]

RepoRequest(kind, config) ==
    [kind |-> kind, owner |-> config.accountInfo.accountName,
     page |-> config.page, repo |-> 0, pos |-> 0]

\* config.page++
NextPage(config) == [config EXCEPT !.page = @ + 1]

\* A faulty variant of ResetPage: the reset also clears the year of the search.
ResetPageClearsYear(config) ==
    [config EXCEPT !.page = 1, !.yearOfIssue = [searchByDate |-> FALSE]]

\* A faulty variant of ResetPage: the cursor is not reset before a repository's walk.
ResetPageForgotten(config) == config

\* cnf.page = 1 of the eachSeries iteratees.
ResetPage(config) == [config EXCEPT !.page = 1]

\* A faulty variant of FetchIssues: the next page is requested together with
\* the page of the cursor (parallel prefetch).
FetchIssuesPrefetch(c, repo, pos) ==
    SetWalk([c EXCEPT !.reqs = @ \cup {IssueRequest(c.cnf, repo, pos),
                                       IssueRequest(NextPage(c.cnf), repo, pos)},
                      !.log = Append(@, c.cnf.page)])

\* GIP.fetchIssues(config, repo, collectedIssues, callback): the request.
FetchIssues(c, repo, pos) ==
    SetWalk([c EXCEPT !.reqs = @ \cup {IssueRequest(c.cnf, repo, pos)},
                      !.log = Append(@, c.cnf.page)])

FetchRepos(c, kind) ==
    SetWalk([c EXCEPT !.reqs = @ \cup {RepoRequest(kind, c.cnf)},
                      !.log = Append(@, c.cnf.page)])

\* -------------------------------------------------------- async.eachSeries
\* A faulty variant of Iteratee: the walk starts at the page the preceding
\* walk left in the configuration.
IterateeKeepsCursor(c, repo, pos) ==
    FetchIssues([c EXCEPT !.acc = <<>>, !.log = <<>>, !.srv = <<>>], repo.name, pos)

\* The iteratee of the three orchestrators: reset the cursor, fetch the
\* repository's issues into a new accumulator.
Iteratee(c, repo, pos) ==
    FetchIssues([c EXCEPT !.cnf = ResetPage(@), !.acc = <<>>,
                          !.log = <<>>, !.srv = <<>>], repo.name, pos)

\* async.eachSeries(coll, iteratee): no final callback is passed to it.
EachSeries(c, coll) ==
    IF Len(coll) = 0
    THEN /\ series' = [coll |-> coll, pos |-> 0, done |-> TRUE]
         /\ SetWalk(c)
    ELSE /\ series' = [coll |-> coll, pos |-> 1, done |-> FALSE]
         /\ Iteratee(c, coll[1], 1)

\* A faulty variant of SeriesCallback: the iteratee is run again for the
\* same position.
SeriesCallbackAgain(c, pos) ==
    /\ UNCHANGED series
    /\ Iteratee(c, series.coll[pos], pos)

\* The callback eachSeries hands to the iteratee of position pos.
SeriesCallback(c, pos) ==
    IF pos < Len(series.coll)
    THEN /\ series' = [series EXCEPT !.pos = pos + 1]
         /\ Iteratee(c, series.coll[pos + 1], pos + 1)
    ELSE /\ series' = [series EXCEPT !.done = TRUE]
         /\ SetWalk(c)

\* --------------------------------------------------------- queueForRender
\* A faulty variant of CanStart: an unbounded fan-out (async.map).
CanStartUnbounded(run, done) == ~done

\* eachOfLimit's replenish: while (running < limit && !done).
CanStart(run, done) == run < RenderLimit /\ ~done

\* A faulty variant of MapLimitFinished: completion is reported while renders run.
MapLimitFinishedEarly(done, run) == done

\* eachOfLimit's iterateeCallback: done && running <= 0.
MapLimitFinished(done, run) == done /\ run <= 0

\* A faulty variant of Replenish: the queue is closed when the limit is
\* reached, the issues beyond it are never started.
RECURSIVE ReplenishStopsAtLimit(_, _, _, _)
ReplenishStopsAtLimit(issues, run, next, done) ==
    IF CanStart(run, done)
    THEN IF next > Len(issues)
         THEN [run |-> run, next |-> next, done |-> TRUE, fin |-> run <= 0]
         ELSE ReplenishStopsAtLimit(issues, run + 1, next + 1, done)
    ELSE [run |-> run, next |-> next, done |-> TRUE, fin |-> FALSE]

\* The replenish loop from `next`: what it leaves in running, next, done and
\* whether it called callback(null) (the collection is exhausted and idle).
RECURSIVE Replenish(_, _, _, _)
Replenish(issues, run, next, done) ==
    IF CanStart(run, done)
    THEN IF next > Len(issues)
         THEN [run |-> run, next |-> next, done |-> TRUE, fin |-> run <= 0]
         ELSE Replenish(issues, run + 1, next + 1, done)
    ELSE [run |-> run, next |-> next, done |-> done, fin |-> FALSE]

\* A faulty variant of FinalCallback: the callback handed to queueForRender
\* is not called.
FinalCallbackForgets(c, q, err) ==
    IF err
    THEN /\ queue' = q
         /\ pendingThrow' = TRUE
         /\ UNCHANGED series
         /\ SetWalk(c)
    ELSE /\ queue' = q
         /\ UNCHANGED <<pendingThrow, series>>
         /\ SetWalk(c)

\* The callback of mapLimit in queueForRender, called (once) with err or null;
\* q is the queue with called set.
FinalCallback(c, q, err) ==
    IF err
    THEN \* if (err) throw err: rethrown by async from setImmediate
         /\ queue' = q
         /\ pendingThrow' = TRUE
         /\ UNCHANGED series
         /\ SetWalk(c)
    ELSE IF q.hasCb
    THEN /\ queue' = [q EXCEPT !.cb = @ + 1]
         /\ UNCHANGED pendingThrow
         /\ SeriesCallback(c, q.pos)
    ELSE /\ queue' = q
         /\ UNCHANGED <<pendingThrow, series>>
         /\ SetWalk(c)

\* GIP.queueForRender(issues, callback) called for the repository at pos.
QueueForRender(c, issues, pos, hasCb) ==
    LET r == Replenish(issues, 0, 1, FALSE)
        q == [issues |-> issues, pos |-> pos, hasCb |-> hasCb,
              next |-> r.next, done |-> r.done, called |-> r.fin, cb |-> 0]
    IN  /\ running' = [running EXCEPT ![pos] = @ + r.run]
        /\ renderStarted' = SubSeq(issues, 1, r.next - 1)
        /\ IF r.fin
           THEN FinalCallback(c, q, FALSE)
           ELSE /\ queue' = q
                /\ UNCHANGED <<pendingThrow, series>>
                /\ SetWalk(c)

\* ------------------------------------------------- the walks' callbacks
\* const collectedIssues = [] of fetchOrgIssues: nothing is pushed to it.
OrgCollectedIssues == <<>>

\* A faulty variant of Handed: the year filter is skipped.
HandedUnfiltered(fl, config, issues) == issues

\* The collection each orchestrator's callback hands to queueForRender.
Handed(fl, config, issues) ==
    IF HasYear(config)
    THEN FilterByYear(issues, config.yearOfIssue.issueYear, <<>>)
    ELSE IF fl = "org" THEN OrgCollectedIssues
    ELSE issues

\* A faulty variant of IssuesCallback: queueForRender(issues) is called without the
\* callback, which is called right after it.
IssuesCallbackNoWait(c, pos, issues) ==
    LET h == Handed(flow, c.cnf, issues)
        r == Replenish(h, 0, 1, FALSE)
    IN  /\ lastWalk' = [kind |-> "issues", pos |-> pos, items |-> issues,
                        reqs |-> c.log, pages |-> c.srv]
        /\ running' = [running EXCEPT ![pos] = @ + r.run]
        /\ renderStarted' = SubSeq(h, 1, r.next - 1)
        /\ queue' = [issues |-> h, pos |-> pos, hasCb |-> FALSE, next |-> r.next,
                     done |-> r.done, called |-> r.fin, cb |-> 0]
        /\ UNCHANGED pendingThrow
        /\ IF flow # "one"
           THEN SeriesCallback(c, pos)
           ELSE UNCHANGED series /\ SetWalk(c)

\* The callback the orchestrator passed to fetchIssues, called with the
\* accumulator of the walk of the repository at pos.
IssuesCallback(c, pos, issues) ==
    /\ lastWalk' = [kind |-> "issues", pos |-> pos, items |-> issues,
                    reqs |-> c.log, pages |-> c.srv]
    /\ QueueForRender(c, Handed(flow, c.cnf, issues), pos, flow # "one")

\* The callback passed to fetchUserRepos / fetchOrgRepos.
ReposCallback(c, kind, repos) ==
    /\ lastWalk' = [kind |-> kind, pos |-> 0, items |-> repos,
                    reqs |-> c.log, pages |-> c.srv]
    /\ EachSeries(c, repos)

\* -------------------------------------------------------------------- Init
Configs ==
    { [accountInfo |-> [accountType |-> t, accountName |-> AccountName,
                        howManyRepos |-> m, repoName |-> IF m = "one" THEN 1 ELSE 0],
       multipleRepos |-> l, page |-> 1, token |-> [id |-> "token"],
       yearOfIssue |-> y] :
         t \in AccountTypes, m \in RepoModes,
         l \in {[j \in 1..Len(ns) |-> [name |-> ns[j]]] :
                    ns \in UNION {[1..n -> 1..2] : n \in 0..MaxRepos}},
         y \in {[searchByDate |-> FALSE]}
               \cup {[searchByDate |-> TRUE, issueYear |-> yr] : yr \in Years} }

\* askAndRun: multipleRepos is asked for (one repository at least) in
\* "multiple" mode only; the names of the list are 1 and 2, the first one 1.
WellFormed(config) ==
    IF config.accountInfo.howManyRepos = "multiple"
    THEN Len(config.multipleRepos) >= 1 /\ config.multipleRepos[1].name = 1
    ELSE config.multipleRepos = Null

InitWith(config, src) ==
    /\ cnf = config
    /\ source = src
    /\ flow = "none"
    /\ gitHub = FALSE
    /\ pathOutput = FALSE
    /\ requests = {}
    /\ reqLog = <<>>
    /\ served = <<>>
    /\ collectedRepos = <<>>
    /\ collectedIssues = <<>>
    /\ lastWalk = [kind |-> "none", pos |-> 0, items |-> <<>>, reqs |-> <<>>, pages |-> <<>>]
    /\ series = [coll |-> <<>>, pos |-> 0, done |-> FALSE]
    /\ queue = [issues |-> <<>>, pos |-> 0, hasCb |-> FALSE, next |-> 1,
                done |-> FALSE, called |-> FALSE, cb |-> 0]
    /\ running = [p \in Positions |-> 0]
    /\ renderStarted = <<>>
    /\ pendingThrow = FALSE
    /\ aborted = FALSE
    /\ failed = Null
    /\ notices = [allDone |-> 0, noIssues |-> 0, fetchError |-> 0]

Init ==
    \E config \in Configs :
        /\ WellFormed(config)
        /\ InitWith(config, [maxPages |-> MaxPages, maxLen |-> MaxPageLen])
        /\ filterCall = Null
        /\ pathCall = Null

\* ----------------------------------------------------- processUserRequest
\* A faulty variant of Route: the account type is not looked at, every
\* account with all its repositories is walked as a user.
RouteAllIsUser(config) ==
    IF config.accountInfo.howManyRepos = "all" THEN "user"
    ELSE IF config.accountInfo.howManyRepos = "multiple" THEN "multiple"
    ELSE "one"

\* The routing table of processUserRequest, first match wins.
Route(config) ==
    IF config.accountInfo.accountType = "organization" /\ config.accountInfo.howManyRepos = "all"
    THEN "org"
    ELSE IF config.accountInfo.accountType = "user" /\ config.accountInfo.howManyRepos = "all"
    THEN "user"
    ELSE IF config.accountInfo.howManyRepos = "multiple" THEN "multiple"
    ELSE "one"

\* A faulty variant of ProcessUserRequest: the orchestrator is started
\* without the output directory and without the API client.
ProcessUserRequestNoSetup ==
    /\ flow = "none"
    /\ flow' = Route(cnf)
    /\ CASE Route(cnf) = "org" -> FetchRepos(Ctx, "orgRepos") /\ UNCHANGED series
         [] Route(cnf) = "user" -> FetchRepos(Ctx, "userRepos") /\ UNCHANGED series
         [] Route(cnf) = "multiple" -> EachSeries(Ctx, cnf.multipleRepos)
         [] OTHER -> FetchIssues(Ctx, cnf.accountInfo.repoName, 1) /\ UNCHANGED series
    /\ UNCHANGED <<source, filterCall, pathCall, collectedRepos, lastWalk, queue, running, renderStarted,
                   pendingThrow, aborted, failed, notices, pathOutput, gitHub>>

\* processUserRequest(cnf) and the orchestrator it starts, up to the first
\* request (fetchOrgIssues, fetchUserIssues, fetchIssuesFromMultipleRepos,
\* processRepo).
ProcessUserRequest ==
    /\ flow = "none"
    /\ pathOutput' = TRUE
    /\ gitHub' = TRUE
    /\ flow' = Route(cnf)
    /\ CASE Route(cnf) = "org" -> FetchRepos(Ctx, "orgRepos") /\ UNCHANGED series
         [] Route(cnf) = "user" -> FetchRepos(Ctx, "userRepos") /\ UNCHANGED series
         [] Route(cnf) = "multiple" -> EachSeries(Ctx, cnf.multipleRepos)
         [] OTHER -> FetchIssues(Ctx, cnf.accountInfo.repoName, 1) /\ UNCHANGED series
    /\ UNCHANGED <<source, filterCall, pathCall, collectedRepos, lastWalk, queue, running, renderStarted,
                   pendingThrow, aborted, failed, notices>>

\* ------------------------------------------------- the response handlers
\* What the source may answer to req: n items, a rel="next" link or none.
Answer(req, n, hasNext) ==
    /\ n \in 0..source.maxLen
    /\ hasNext \in BOOLEAN
    /\ hasNext => req.page < source.maxPages

\* A faulty variant of FetchIssuesThen: the callback runs on every page (streaming),
\* the walk going on when the page carries rel="next".
FetchIssuesThenStreaming(req, n, hasNext) ==
    /\ ~aborted
    /\ req \in requests
    /\ req.kind = "issues"
    /\ Answer(req, n, hasNext)
    /\ LET data == IssuePage(Len(collectedIssues), n)
           c == [Ctx EXCEPT !.reqs = @ \ {req},
                            !.acc = @ \o ProjectIssues(data, cnf, req.repo),
                            !.srv = Append(@, [items |-> data, next |-> hasNext])]
           d == [c EXCEPT !.cnf = NextPage(@),
                          !.reqs = @ \cup {IssueRequest(NextPage(c.cnf), req.repo, req.pos)},
                          !.log = Append(@, c.cnf.page + 1)]
       IN  IssuesCallback(IF hasNext THEN d ELSE c, req.pos, c.acc)
    /\ UNCHANGED <<source, filterCall, pathCall, flow, gitHub, pathOutput, collectedRepos, aborted, failed, notices>>

\* .then of fetchIssues: the page of req has arrived.
FetchIssuesThen(req, n, hasNext) ==
    /\ ~aborted
    /\ req \in requests
    /\ req.kind = "issues"
    /\ Answer(req, n, hasNext)
    /\ LET data == IssuePage(Len(collectedIssues), n)
           c == [Ctx EXCEPT !.reqs = @ \ {req},
                            !.acc = @ \o ProjectIssues(data, cnf, req.repo),
                            !.srv = Append(@, [items |-> data, next |-> hasNext])]
       IN  IF hasNext
           THEN /\ FetchIssues([c EXCEPT !.cnf = NextPage(@)], req.repo, req.pos)
                /\ UNCHANGED <<lastWalk, series, queue, running, renderStarted, pendingThrow>>
           ELSE IssuesCallback(c, req.pos, c.acc)
    /\ UNCHANGED <<source, filterCall, pathCall, flow, gitHub, pathOutput, collectedRepos, aborted, failed, notices>>

\* A faulty variant of FetchIssuesCatch: the handler passes the accumulator on.
FetchIssuesCatchCallsBack(req) ==
    /\ ~aborted
    /\ req \in requests
    /\ req.kind = "issues"
    /\ failed' = [kind |-> "issues", pos |-> req.pos]
    /\ notices' = [notices EXCEPT !.fetchError = @ + 1]
    /\ IssuesCallback([Ctx EXCEPT !.reqs = @ \ {req}], req.pos, collectedIssues)
    /\ UNCHANGED <<source, filterCall, pathCall, flow, gitHub, pathOutput, collectedRepos, aborted>>

\* A faulty variant of FetchIssuesCatch: the handler signals completion to
\* eachSeries, which goes on with the next repository.
FetchIssuesCatchSignals(req) ==
    /\ ~aborted
    /\ req \in requests
    /\ req.kind = "issues"
    /\ failed' = [kind |-> "issues", pos |-> req.pos]
    /\ notices' = [notices EXCEPT !.fetchError = @ + 1]
    /\ IF flow # "one"
       THEN SeriesCallback([Ctx EXCEPT !.reqs = @ \ {req}], req.pos)
       ELSE UNCHANGED series /\ SetWalk([Ctx EXCEPT !.reqs = @ \ {req}])
    /\ UNCHANGED <<source, filterCall, pathCall, flow, gitHub, pathOutput, collectedRepos, lastWalk, queue,
                   running, renderStarted, pendingThrow, aborted>>

\* .catch of fetchIssues: the request was rejected; the error is logged.
FetchIssuesCatch(req) ==
    /\ ~aborted
    /\ req \in requests
    /\ req.kind = "issues"
    /\ requests' = requests \ {req}
    /\ failed' = [kind |-> "issues", pos |-> req.pos]
    /\ notices' = [notices EXCEPT !.fetchError = @ + 1]
    /\ UNCHANGED <<cnf, source, filterCall, pathCall, flow, gitHub, pathOutput, reqLog, served, collectedRepos,
                   collectedIssues, lastWalk, series, queue, running, renderStarted,
                   pendingThrow, aborted>>

\* .then of fetchUserRepos / fetchOrgRepos; fetchUserRepos increments the
\* cursor after the last page too.
FetchReposThen(req, n, hasNext) ==
    /\ ~aborted
    /\ req \in requests
    /\ req.kind \in {"userRepos", "orgRepos"}
    /\ Answer(req, n, hasNext)
    /\ Len(collectedRepos) + n <= MaxRepos
    /\ LET data == RepoPage(Len(collectedRepos), n)
           repos == collectedRepos \o ProjectRepos(data, cnf)
           c == [Ctx EXCEPT !.reqs = @ \ {req},
                            !.srv = Append(@, [items |-> data, next |-> hasNext])]
       IN  /\ collectedRepos' = repos
           /\ IF hasNext
              THEN /\ FetchRepos([c EXCEPT !.cnf = NextPage(@)], req.kind)
                   /\ UNCHANGED <<lastWalk, series>>
              ELSE IF req.kind = "userRepos"
              THEN ReposCallback([c EXCEPT !.cnf = NextPage(@)], req.kind, repos)
              ELSE ReposCallback(c, req.kind, repos)
    /\ UNCHANGED <<source, filterCall, pathCall, flow, gitHub, pathOutput, queue, running, renderStarted,
                   pendingThrow, aborted, failed, notices>>

FetchUserReposThen(req, n, hasNext) ==
    req.kind = "userRepos" /\ FetchReposThen(req, n, hasNext)

FetchOrgReposThen(req, n, hasNext) ==
    req.kind = "orgRepos" /\ FetchReposThen(req, n, hasNext)

\* .catch of fetchUserRepos / fetchOrgRepos.
FetchReposCatch(req) ==
    /\ ~aborted
    /\ req \in requests
    /\ req.kind \in {"userRepos", "orgRepos"}
    /\ requests' = requests \ {req}
    /\ failed' = [kind |-> req.kind, pos |-> 0]
    /\ notices' = [notices EXCEPT !.fetchError = @ + 1]
    /\ UNCHANGED <<cnf, source, filterCall, pathCall, flow, gitHub, pathOutput, reqLog, served, collectedRepos,
                   collectedIssues, lastWalk, series, queue, running, renderStarted,
                   pendingThrow, aborted>>

\* ------------------------------------------------------------ generatePDF
\* The promise of one generatePDF of the repository at pos settles: async
\* calls eachOfLimit's iterateeCallback with err or null.
RenderSettles(pos, ok) ==
    /\ ~aborted
    /\ running[pos] > 0
    /\ LET run == running[pos] - 1 IN
       IF pos # queue.pos
       THEN /\ running' = [running EXCEPT ![pos] = run]
            /\ UNCHANGED <<cnf, requests, collectedIssues, reqLog, served, series, queue,
                           renderStarted, pendingThrow>>
       ELSE IF ~ok
       THEN \* done = true; callback(err)
            /\ running' = [running EXCEPT ![pos] = run]
            /\ UNCHANGED renderStarted
            /\ IF queue.called
               THEN /\ queue' = [queue EXCEPT !.done = TRUE]
                    /\ UNCHANGED <<cnf, requests, collectedIssues, reqLog, served, series,
                                   pendingThrow>>
               ELSE FinalCallback(Ctx, [queue EXCEPT !.done = TRUE, !.called = TRUE], TRUE)
       ELSE IF MapLimitFinished(queue.done, run)
       THEN \* done = true; return callback(null)
            /\ running' = [running EXCEPT ![pos] = run]
            /\ UNCHANGED renderStarted
            /\ IF queue.called
               THEN UNCHANGED <<cnf, requests, collectedIssues, reqLog, served, series,
                                queue, pendingThrow>>
               ELSE FinalCallback(Ctx, [queue EXCEPT !.called = TRUE], FALSE)
       ELSE \* replenish()
            LET r == Replenish(queue.issues, run, queue.next, queue.done)
                q == [queue EXCEPT !.next = r.next, !.done = r.done]
            IN  /\ running' = [running EXCEPT ![pos] = r.run]
                /\ renderStarted' = renderStarted \o SubSeq(queue.issues, queue.next, r.next - 1)
                /\ IF r.fin /\ ~queue.called
                   THEN FinalCallback(Ctx, [q EXCEPT !.called = TRUE], FALSE)
                   ELSE /\ queue' = q
                        /\ UNCHANGED <<cnf, requests, collectedIssues, reqLog, served,
                                       series, pendingThrow>>
    /\ UNCHANGED <<source, filterCall, pathCall, flow, gitHub, pathOutput, collectedRepos, lastWalk, aborted,
                   failed, notices>>

\* The exception rethrown from setImmediate is uncaught: Node ends the
\* process, and with it every operation still in flight.
UncaughtException ==
    /\ ~aborted
    /\ pendingThrow
    /\ aborted' = TRUE
    /\ pendingThrow' = FALSE
    /\ UNCHANGED <<cnf, source, filterCall, pathCall, flow, gitHub, pathOutput, requests, reqLog, served,
                   collectedRepos, collectedIssues, lastWalk, series, queue, running,
                   renderStarted, failed, notices>>

\* -------------------------------------------------------------------- Next
Next ==
    \/ ProcessUserRequest
    \/ \E req \in requests, n \in 0..source.maxLen, hasNext \in BOOLEAN :
           FetchIssuesThen(req, n, hasNext)
    \/ \E req \in requests, n \in 0..source.maxLen, hasNext \in BOOLEAN :
           FetchUserReposThen(req, n, hasNext)
    \/ \E req \in requests, n \in 0..source.maxLen, hasNext \in BOOLEAN :
           FetchOrgReposThen(req, n, hasNext)
    \/ \E req \in requests : FetchIssuesCatch(req)
    \/ \E req \in requests : FetchReposCatch(req)
    \/ \E pos \in Positions, ok \in BOOLEAN : RenderSettles(pos, ok)
    \/ UncaughtException

Spec == Init /\ [][Next]_vars

\* The event loop runs a callback whenever one is pending: a response, a
\* settled render or the rethrown exception is eventually handled.
SpecFair == Init /\ [][Next]_vars /\ WF_vars(Next)

\* The render queue on its own: one repository ("one" mode, no year) whose
\* single page holds up to MaxQueueIssues issues.
InitQueue ==
    \E config \in Configs :
        /\ WellFormed(config)
        /\ config.accountInfo.howManyRepos = "one"
        /\ config.accountInfo.accountType = "user"
        /\ ~HasYear(config)
        /\ InitWith(config, [maxPages |-> 1, maxLen |-> MaxQueueIssues])
        /\ filterCall = Null
        /\ pathCall = Null

NextQueue ==
    \/ ProcessUserRequest
    \/ \E req \in requests, n \in 0..source.maxLen, hasNext \in BOOLEAN :
           FetchIssuesThen(req, n, hasNext)
    \/ \E req \in requests : FetchIssuesCatch(req)
    \/ \E pos \in Positions, ok \in BOOLEAN : RenderSettles(pos, ok)
    \/ UncaughtException

SpecQueue == InitQueue /\ [][NextQueue]_vars

\* filterByYear on its own: every list of at most MaxFilterLen issues over
\* every creation year and every closed year (or none), and a value that is
\* not an array, for every year of the configuration.
Timestamps == {<<y, 3, 4>> : y \in Years}

FilterIssues ==
    UNION { { [j \in 1..n |-> [closed |-> cl[j], created |-> cr[j], num |-> j,
                               owner |-> AccountName, repo |-> 1]] :
                cr \in [1..n -> Timestamps], cl \in [1..n -> Timestamps \cup {Null}] } :
            n \in 0..MaxFilterLen }

FilterArguments ==
    {[isArray |-> TRUE, items |-> l] : l \in FilterIssues} \cup {[isArray |-> FALSE]}

InitFilter ==
    \E config \in Configs, value \in FilterArguments :
        /\ WellFormed(config)
        /\ config.accountInfo.howManyRepos = "one"
        /\ config.accountInfo.accountType = "user"
        /\ HasYear(config)
        /\ InitWith(config, [maxPages |-> MaxPages, maxLen |-> MaxPageLen])
        /\ filterCall = [issues |-> value, year |-> config.yearOfIssue.issueYear,
                         datedIssues |-> <<>>, result |-> Null]
        /\ pathCall = Null

CallFilterByYear ==
    /\ filterCall # Null
    /\ filterCall.result = Null
    /\ filterCall' = [filterCall EXCEPT !.result =
                          FilterByYearCall(filterCall.issues, filterCall.year,
                                           filterCall.datedIssues)]
    /\ UNCHANGED <<cnf, source, flow, gitHub, pathOutput, requests, reqLog, served,
                   collectedRepos, collectedIssues, lastWalk, series, queue, running,
                   renderStarted, pendingThrow, aborted, failed, notices, pathCall>>

NextFilter == CallFilterByYear

SpecFilter == InitFilter /\ [][NextFilter]_vars

\* makePdfFilePath on its own: after processUserRequest has set the output
\* directory, the paths of two issues are made one after the other.
IssueNumbers == {1, 7, 10, 999, 1000, 9999, 10000, 10007}

PathIssues ==
    { [closed |-> Null, created |-> <<y, 3, 4, "T00:00:00Z">>, num |-> n,
       owner |-> AccountName, repo |-> rp] :
          y \in Years, n \in IssueNumbers, rp \in 1..2 }

InitPath ==
    \E config \in Configs, first \in PathIssues, second \in PathIssues :
        /\ WellFormed(config)
        /\ config.accountInfo.howManyRepos = "one"
        /\ config.accountInfo.accountType = "user"
        /\ ~HasYear(config)
        /\ InitWith(config, [maxPages |-> MaxPages, maxLen |-> MaxPageLen])
        /\ filterCall = Null
        /\ pathCall = [issues |-> <<first, second>>, paths |-> <<>>, dirs |-> {}]

CallMakePdfFilePath ==
    /\ pathCall # Null
    /\ pathOutput
    /\ Len(pathCall.paths) < Len(pathCall.issues)
    /\ LET issue == pathCall.issues[Len(pathCall.paths) + 1] IN
       pathCall' = [pathCall EXCEPT
                       !.paths = Append(@, MakePdfFilePath(cnf, issue)),
                       !.dirs = @ \cup {IssueOutputDir(cnf, issue)}]
    /\ UNCHANGED <<cnf, source, flow, gitHub, pathOutput, requests, reqLog, served,
                   collectedRepos, collectedIssues, lastWalk, series, queue, running,
                   renderStarted, pendingThrow, aborted, failed, notices, filterCall>>

NextPath ==
    \/ ProcessUserRequest
    \/ CallMakePdfFilePath

SpecPath == InitPath /\ [][NextPath]_vars

\* ================================================================== claims
RECURSIVE Flatten(_)
Flatten(pages) ==
    IF pages = <<>> THEN <<>> ELSE Head(pages).items \o Flatten(Tail(pages))

InSeq(x, seq) == \E j \in 1..Len(seq) : seq[j] = x

Orchestrated == flow \in {"org", "user", "multiple"}

\* C1: within one queueForRender invocation at most 15 generatePDF
\* operations are in flight at every instant, whatever the size of the
\* collection and the order in which the renders settle.
C1_AtMost15InFlight == \A p \in Positions : running[p] <= RenderLimit

\* The bound binds: 15 renders run and an issue of the collection waits.
C1_Witness ==
    \E p \in Positions :
        /\ queue.pos = p
        /\ running[p] = RenderLimit
        /\ queue.next <= Len(queue.issues)
        /\ Len(renderStarted) = RenderLimit

\* C2: in 'multiple' and 'all' modes a page request for the repository at
\* position N+1 is in flight only after the render queue of the repository
\* at position N has invoked its completion callback.
C2_NextRepoAfterCallback ==
    \A r \in requests :
        (r.kind = "issues" /\ r.pos > 1) =>
            /\ queue.pos = r.pos - 1
            /\ queue.hasCb
            /\ queue.called
            /\ queue.cb = 1

\* R2's first page is requested after R1's queue rendered and called back.
C2_Witness ==
    \E r \in requests :
        /\ r.kind = "issues" /\ r.pos = 2 /\ r.page = 1
        /\ queue.pos = 1 /\ queue.cb = 1 /\ Len(queue.issues) >= 1

\* C3: render queues of different repositories never overlap: while a page
\* request of a repository is in flight, no render of an earlier repository
\* of the list is in flight.
C3_QueuesNeverOverlap ==
    \A r \in requests :
        r.kind = "issues" => \A p \in Positions : p < r.pos => running[p] = 0

\* R2 is being fetched after the two renders of R1 have drained.
C3_Witness ==
    \E r \in requests :
        /\ r.kind = "issues" /\ r.pos = 2
        /\ queue.pos = 1 /\ Len(renderStarted) >= 2 /\ running[1] = 0

\* C4: every call of queueForRender with a function callback invokes it
\* exactly once, whether the renders succeed or one of them fails: once
\* mapLimit has reported the end of the queue, the callback has run once.
C4_CallbackExactlyOnce == (queue.hasCb /\ queue.called) => queue.cb = 1

\* C5: a walk over K pages, the first K-1 with a rel="next" link and the
\* last without, issues exactly the requests for pages 1..K in this order
\* and passes to its callback the items of the pages in cross-page order.
C5_PaginationComplete ==
    LET K == Len(lastWalk.pages)
        all == Flatten(lastWalk.pages)
    IN  (/\ lastWalk.kind # "none"
         /\ \A i \in 1..K : lastWalk.pages[i].next <=> i < K)
        => /\ K >= 1
           /\ lastWalk.reqs = [i \in 1..K |-> i]
           /\ Len(lastWalk.items) = Len(all)
           /\ \A j \in 1..Len(all) :
                  IF lastWalk.kind = "issues"
                  THEN /\ lastWalk.items[j].num = all[j].number
                       /\ lastWalk.items[j].created = all[j].created_at
                       /\ lastWalk.items[j].closed = all[j].closed_at
                  ELSE lastWalk.items[j].name = all[j].name

\* An issue walk over two non-empty pages has called back.
C5_Witness ==
    /\ lastWalk.kind = "issues"
    /\ Len(lastWalk.pages) = 2
    /\ \A i \in 1..2 : Len(lastWalk.pages[i].items) >= 1
    /\ Len(lastWalk.items) >= 2

\* C6: no render of an issue of a repository is initiated before the last
\* page of the repository's issue listing has been received: while renders
\* of the repository run, its walk has ended on a page without rel="next",
\* none of its page requests is in flight and every issue rendered is one
\* of the issues the walk collected.
C6_NoRenderBeforeLastPage ==
    \A p \in Positions :
        running[p] > 0 =>
            /\ \A r \in requests : ~(r.kind = "issues" /\ r.pos = p)
            /\ lastWalk.kind = "issues" /\ lastWalk.pos = p
            /\ lastWalk.pages # <<>>
            /\ ~lastWalk.pages[Len(lastWalk.pages)].next
            /\ \A j \in 1..Len(renderStarted) : InSeq(renderStarted[j], lastWalk.items)

\* Renders run for a repository whose listing had two pages.
C6_Witness ==
    \E p \in Positions :
        /\ running[p] > 0
        /\ lastWalk.pos = p
        /\ Len(lastWalk.pages) = 2

\* C7: in 'all' and 'multiple' modes, when every fetch and every render
\* succeeded, the "All issues have finished rendering" notice has been
\* written exactly once after the last repository's queue completed.
C7_AllDoneNotice ==
    (/\ Orchestrated
     /\ series.done
     /\ Len(series.coll) >= 1
     /\ failed = Null /\ ~pendingThrow /\ ~aborted)
    => notices.allDone = 1

\* C8: in every mode, when no target year is configured, the collection
\* handed to the render queue is exactly the list of issues fetched for the
\* repository.
C8_UnfilteredHandOff ==
    (lastWalk.kind = "issues" /\ ~HasYear(cnf)) => queue.issues = lastWalk.items

\* C9: in every mode, when a target year is configured, the collection
\* handed to the render queue is filterByYear of the complete list of
\* issues fetched for the repository, and no issue the filter rejects is
\* rendered.
C9_FilteredHandOff ==
    (lastWalk.kind = "issues" /\ HasYear(cnf)) =>
        /\ queue.issues = FilterByYear(lastWalk.items, cnf.yearOfIssue.issueYear, <<>>)
        /\ \A j \in 1..Len(renderStarted) :
               /\ KeepByYear(renderStarted[j], cnf.yearOfIssue.issueYear)
               /\ InSeq(renderStarted[j], lastWalk.items)

\* The filter kept an issue, which is rendered, and rejected another.
C9_Witness ==
    /\ lastWalk.kind = "issues"
    /\ HasYear(cnf)
    /\ Len(queue.issues) < Len(lastWalk.items)
    /\ renderStarted # <<>>

\* C10: when a page request of a walk fails, at the first page or later,
\* the walk's callback is never called with the accumulator: the walk does
\* not complete and nothing is filtered, queued or rendered for its target.
C10_FailedWalkNeverCallsBack ==
    failed # Null =>
        /\ ~(lastWalk.kind = failed.kind /\ lastWalk.pos = failed.pos)
        /\ failed.kind = "issues" =>
               /\ queue.pos # failed.pos
               /\ running[failed.pos] = 0
        /\ failed.kind # "issues" =>
               /\ series.pos = 0 /\ ~series.done
               /\ queue.pos = 0
               /\ \A r \in requests : r.kind # "issues"

\* The second page of an issue walk failed after the first was appended.
C10_Witness ==
    /\ failed # Null
    /\ failed.kind = "issues"
    /\ collectedIssues # <<>>
    /\ Len(reqLog) = 2

\* C11: in 'all'/'multiple' mode, when an issue-page request of the
\* repository at position N fails, no completion is signalled for N and the
\* walk over the repositories stalls at N: no request is issued for a later
\* repository, and the process is not aborted.
C11_FetchFailureStalls ==
    (Orchestrated /\ failed # Null /\ failed.kind = "issues") =>
        /\ series.pos = failed.pos
        /\ ~series.done
        /\ \A r \in requests : r.pos <= failed.pos
        /\ queue.pos # failed.pos
        /\ ~pendingThrow /\ ~aborted

\* The first of two repositories failed; the second is never fetched.
C11_Witness ==
    /\ Orchestrated
    /\ failed # Null /\ failed.kind = "issues" /\ failed.pos = 1
    /\ Len(series.coll) >= 2
    /\ requests = {}

\* C12: in 'all'/'multiple' mode the failure of one render of the
\* repository at position N does not halt the later repositories: when the
\* run has come to its end, the fetch of repository N+1 has been issued.
C12_RenderFailureDoesNotHalt ==
    (/\ Orchestrated
     /\ aborted
     /\ queue.hasCb
     /\ queue.pos < Len(series.coll))
    => series.pos > queue.pos

\* C13: when a render of a queue fails, the completion is reported as an
\* error and the sibling renders already initiated are not cancelled: at
\* the end of the run every one of them has settled.
C13_SiblingsRunToCompletion ==
    (aborted /\ queue.called) => \A p \in Positions : running[p] = 0

\* C14: an empty collection passed to queueForRender writes the "No issues
\* found" notice, calls generatePDF for no issue and invokes the completion
\* callback exactly once.
C14_EmptyQueueNotice ==
    (queue.pos >= 1 /\ queue.issues = <<>> /\ queue.hasCb) =>
        /\ notices.noIssues >= 1
        /\ renderStarted = <<>>
        /\ queue.cb = 1

\* The call of filterByYear has returned for an array argument.
FilterReturned ==
    /\ filterCall # Null
    /\ filterCall.result # Null
    /\ filterCall.issues.isArray

\* The rule of the specification: created in the year, or created in or
\* before the year and not closed before the year.
StatedKeep(issue, year) ==
    \/ issue.created[1] = year
    \/ /\ issue.created[1] <= year
       /\ issue.closed = Null \/ issue.closed[1] >= year

\* C15: filterByYear keeps an issue if and only if it was created in the
\* target year, or created in or before the target year and either never
\* closed or closed in or after the target year, for every combination of
\* creation year, closed year (or none) and target year.
C15_KeepRule ==
    FilterReturned =>
        \A j \in 1..Len(filterCall.issues.items) :
            InSeq(filterCall.issues.items[j], filterCall.result.value)
                <=> StatedKeep(filterCall.issues.items[j], filterCall.year)

RECURSIVE IsSubsequence(_, _)
IsSubsequence(a, b) ==
    IF a = <<>> THEN TRUE
    ELSE IF b = <<>> THEN FALSE
    ELSE IF Head(a) = Head(b) THEN IsSubsequence(Tail(a), Tail(b))
    ELSE IsSubsequence(a, Tail(b))

\* C16: the result of filterByYear, called with an empty accumulator, is an
\* order-preserving subsequence of its input: every kept issue appears once,
\* in the order of the input, and nothing else appears.
C16_OrderPreservingSubsequence ==
    (FilterReturned /\ filterCall.datedIssues = <<>>) =>
        /\ IsSubsequence(filterCall.result.value, filterCall.issues.items)
        /\ \A j, k \in 1..Len(filterCall.result.value) :
               filterCall.result.value[j] = filterCall.result.value[k] => j = k

\* Two issues were kept and one was dropped before them.
C16_Witness ==
    /\ FilterReturned
    /\ Len(filterCall.issues.items) = MaxFilterLen
    /\ Len(filterCall.result.value) = 2
    /\ filterCall.result.value[1].created # filterCall.result.value[2].created

\* C17: filterByYear called with a value that is not a collection, or with
\* an empty collection, returns an empty result and does not fail.
C17_DegenerateInput ==
    (/\ filterCall # Null
     /\ filterCall.result # Null
     /\ \/ ~filterCall.issues.isArray
        \/ filterCall.issues.items = <<>>)
    => /\ ~filterCall.result.threw
       /\ filterCall.result.value = <<>>

\* The call with a value that is not an array has returned.
C17_Witness ==
    /\ filterCall # Null
    /\ filterCall.result # Null
    /\ ~filterCall.issues.isArray

\* The flow the routing table of the specification gives to a configuration.
StatedFlow(config) ==
    CASE config.accountInfo.accountType = "organization"
             /\ config.accountInfo.howManyRepos = "all" -> "org"
      [] config.accountInfo.accountType = "user"
             /\ config.accountInfo.howManyRepos = "all" -> "user"
      [] config.accountInfo.howManyRepos = "multiple" -> "multiple"
      [] OTHER -> "one"

\* The first request of each flow.
FirstRequestOf(fl, config) ==
    CASE fl = "org" -> [kind |-> "orgRepos", repo |-> 0]
      [] fl = "user" -> [kind |-> "userRepos", repo |-> 0]
      [] fl = "multiple" -> [kind |-> "issues", repo |-> config.multipleRepos[1].name]
      [] OTHER -> [kind |-> "issues", repo |-> config.accountInfo.repoName]

\* C18: processUserRequest starts the organisation-wide flow for an
\* organisation with all its repositories, the user-wide flow for a user
\* with all repositories, the multiple-repository flow for howManyRepos =
\* 'multiple' and the single-repository flow otherwise; a dispatch starts
\* exactly one flow, whose first request is the only one in flight, and the
\* flow of a run never changes afterwards.
C18_Routing ==
    [][/\ flow = "none" =>
            /\ flow' = StatedFlow(cnf)
            /\ \E r \in requests' :
                   /\ requests' = {r}
                   /\ r.kind = FirstRequestOf(flow', cnf).kind
                   /\ r.repo = FirstRequestOf(flow', cnf).repo
            /\ (series'.coll # <<>>) <=> (flow' = "multiple")
       /\ flow # "none" => flow' = flow]_vars

\* An organisation with a list of repositories was routed to the
\* multiple-repository flow, whose first request is in flight.
C18_Witness ==
    /\ flow = "multiple"
    /\ cnf.accountInfo.accountType = "organization"
    /\ lastWalk.kind = "none"
    /\ \E r \in requests : r.kind = "issues" /\ r.pos = 1

\* C19: whenever a list-page request (repositories or issues) has been
\* issued, the account's output directory has been ensured and the API
\* client has been initialised.
C19_SetupBeforeFirstFetch ==
    (requests # {} \/ reqLog # <<>> \/ lastWalk.kind # "none" \/ failed # Null)
        => gitHub /\ pathOutput

\* The first request of a run is in flight.
C19_Witness ==
    /\ requests # {}
    /\ reqLog = <<1>>
    /\ lastWalk.kind = "none"
    /\ gitHub /\ pathOutput

\* C20: every pagination walk starts at page 1: the first request of every
\* repository's issue walk and of the repository-listing walk asks for page
\* 1, whatever the walk before left in config.page.
C20_WalkStartsAtPageOne ==
    /\ reqLog # <<>> => reqLog[1] = 1
    /\ \A r \in requests : Len(reqLog) = 1 => r.page = 1
    /\ lastWalk.kind # "none" => lastWalk.reqs[1] = 1

\* The repository listing of a user took two pages and left the cursor
\* beyond them; the first repository's issue walk has asked for page 1.
C20_Witness ==
    /\ flow = "user"
    /\ lastWalk.kind = "userRepos"
    /\ Len(lastWalk.reqs) = 2
    /\ series.pos = 1
    /\ reqLog = <<1>>
    /\ \E r \in requests : r.kind = "issues" /\ r.page = 1

\* C21: at every instant at most one list-page request is in flight; the
\* request in flight is the last one its walk has issued, every earlier
\* page of the walk has been received, and the cursor of the configuration
\* is the page of that request: no other chain has moved it.
C21_OneRequestInFlight ==
    /\ Cardinality(requests) <= 1
    /\ \A r \in requests :
           /\ Len(reqLog) = Len(served) + 1
           /\ r.page = reqLog[Len(reqLog)]
           /\ cnf.page = r.page
    /\ \A i \in 1..Len(served) : i < Len(reqLog) => served[i].next

\* The request of page 2 is in flight after page 1 has been received.
C21_Witness ==
    /\ Len(served) = 1
    /\ reqLog = <<1, 2>>
    /\ \E r \in requests : r.kind = "issues" /\ r.page = 2 /\ cnf.page = 2

\* C22: from the dispatch to the end of the run no step changes a field of
\* the configuration other than the page cursor: the account (name, type,
\* mode, repository name), the list of repositories, the year and the token
\* are the same after every step.
C22_OnlyCursorChanges ==
    [][/\ DOMAIN cnf' = DOMAIN cnf
       /\ \A f \in DOMAIN cnf \ {"page"} : cnf'[f] = cnf[f]]_vars

\* The cursor has been moved and reset: the walk of the second repository
\* of a search by year is at its second page.
C22_Witness ==
    /\ Orchestrated
    /\ HasYear(cnf)
    /\ series.pos = 2
    /\ cnf.page = 2
    /\ requests # {}

\* The number a sequence of decimal digits stands for.
RECURSIVE DigitsValue(_)
DigitsValue(digits) ==
    IF digits = <<>> THEN 0
    ELSE 10 * DigitsValue(SubSeq(digits, 1, Len(digits) - 1)) + digits[Len(digits)]

\* C23: makePdfFilePath maps an issue to <output root>/<repo>/<YYYY-MM-DD
\* of its creation>.#<number padded with zeros to at least 4 digits>.pdf:
\* the same issue always gives the same path, issue 7 gives the digits
\* 0007, and two issues of one repository with different numbers never get
\* the same path.
C23_PdfFilePath ==
    pathCall # Null =>
        /\ \A k \in 1..Len(pathCall.paths) :
               LET issue == pathCall.issues[k]
                   path == pathCall.paths[k]
               IN  /\ path.dir = <<"./data/output", cnf.accountInfo.accountName, issue.repo>>
                   /\ path.dir \in pathCall.dirs
                   /\ path.date = <<issue.created[1], issue.created[2], issue.created[3]>>
                   /\ path.ext = "pdf"
                   /\ DigitsValue(path.id) = issue.num
                   /\ Len(path.id) >= 4
                   /\ Len(path.id) > 4 => path.id[1] # 0
                   /\ issue.num = 7 => path.id = <<0, 0, 0, 7>>
        /\ Len(pathCall.paths) = 2 =>
               /\ pathCall.issues[1] = pathCall.issues[2]
                      => pathCall.paths[1] = pathCall.paths[2]
               /\ (/\ pathCall.issues[1].repo = pathCall.issues[2].repo
                   /\ pathCall.issues[1].num # pathCall.issues[2].num)
                      => pathCall.paths[1] # pathCall.paths[2]

\* The paths of issues 7 and 10007 of one repository, created on the same
\* day, have been made.
C23_Witness ==
    /\ pathCall # Null
    /\ Len(pathCall.paths) = 2
    /\ pathCall.issues[1].num = 7
    /\ pathCall.issues[2].num = 10007
    /\ pathCall.issues[1].repo = pathCall.issues[2].repo
    /\ pathCall.issues[1].created = pathCall.issues[2].created

SomethingFailed == failed # Null \/ pendingThrow \/ aborted

\* C25: under fairness, when no page request and no render fails, in
\* 'all'/'multiple' mode the run reaches the end of the list, and every
\* entry the run comes to has its issue walk completed and the callback of
\* its render queue invoked, the entries without issues included.
C25_RunReachesEndOfList ==
    /\ (cnf.accountInfo.howManyRepos # "one")
           => <>(SomethingFailed \/ (series.done /\ requests = {}))
    /\ \A p \in Positions :
           (Orchestrated /\ series.pos = p)
               ~> \/ SomethingFailed
                  \/ /\ lastWalk.kind = "issues" /\ lastWalk.pos = p
                     /\ queue.pos = p /\ queue.hasCb /\ queue.cb = 1

\* The end of a list of two repositories has been reached without a
\* failure; the last repository had no issue.
C25_Witness ==
    /\ ~SomethingFailed
    /\ Orchestrated
    /\ series.done
    /\ Len(series.coll) = 2
    /\ queue.pos = 2 /\ queue.issues = <<>> /\ queue.cb = 1
    /\ lastWalk.items = <<>>

\* C26: in a queueForRender invocation where no render fails, generatePDF
\* is initiated exactly once for each issue of the handed collection, in
\* the order of the collection, and the completion callback is invoked only
\* after all of them have been initiated and have completed.
C26_EachIssueRenderedOnce ==
    (queue.pos >= 1 /\ ~SomethingFailed) =>
        /\ Len(renderStarted) <= Len(queue.issues)
        /\ renderStarted = SubSeq(queue.issues, 1, Len(renderStarted))
        /\ \A i, j \in 1..Len(renderStarted) :
               renderStarted[i] = renderStarted[j] => i = j
        /\ Len(renderStarted) - running[queue.pos] >= 0
        /\ queue.called =>
               /\ renderStarted = queue.issues
               /\ running[queue.pos] = 0

\* A queue of more issues than the limit has completed without a failure.
C26_Witness ==
    /\ ~SomethingFailed
    /\ queue.pos >= 1
    /\ queue.called
    /\ Len(queue.issues) = MaxQueueIssues
    /\ renderStarted = queue.issues

\* An issue that is not closed, or closed in or after the year of its
\* creation.
WellFormedIssue(issue) ==
    issue.closed = Null \/ issue.closed[1] >= issue.created[1]

\* C27: for every well-formed issue and every target year the decision of
\* filterByYear's code, whose equality test compares the array of matches
\* with the year, is the decision of the stated rule: created in the year,
\* or created in or before it and not closed or closed in or after it.
C27_CodeAgreesOnWellFormed ==
    FilterReturned =>
        \A j \in 1..Len(filterCall.issues.items) :
            LET issue == filterCall.issues.items[j] IN
            WellFormedIssue(issue) =>
                (KeepByYear(issue, filterCall.year) <=> StatedKeep(issue, filterCall.year))
                /\ (InSeq(issue, filterCall.result.value)
                        <=> StatedKeep(issue, filterCall.year))

\* A list of well-formed issues has been filtered: one created and closed
\* in the target year was kept, one created after it was dropped.
C27_Witness ==
    /\ FilterReturned
    /\ Len(filterCall.issues.items) = 2
    /\ \A j \in 1..2 : WellFormedIssue(filterCall.issues.items[j])
    /\ filterCall.issues.items[1].created[1] = filterCall.year
    /\ filterCall.issues.items[1].closed # Null
    /\ filterCall.issues.items[1].closed[1] = filterCall.year
    /\ filterCall.issues.items[2].created[1] > filterCall.year
    /\ filterCall.result.value = <<filterCall.issues.items[1]>>

====
